---- MODULE Spec2Model ----
(***************************************************************************)
(* Model of SyncWriter (matrix/room/timeline/persistence): the writer that *)
(* appends the timeline of successive sync responses of one room to the    *)
(* timeline store, splitting the timeline in fragments on gaps.            *)
(*                                                                         *)
(* JavaScript values are represented with one type per field:              *)
(*   - an absent (undefined) string is "undefined", a null string "null";  *)
(*   - a null fragment id is NullId, a null EventKey is NullKey;           *)
(*   - an optional object is a sequence of length 0 or 1.                  *)
(***************************************************************************)
EXTENDS Integers, Sequences, FiniteSets, TLC

\* ---------------------------------------------------------------- bounds
\* longest timeline.events list of a response
MaxLen == 3
\* number of sync responses the room processes in one behaviour
MaxSyncs == 2

\* ------------------------------------------------------- values and events
NullId == -1
DefaultFragmentId == 0
DefaultEventIndex == 0

NullKey == [fragmentId |-> NullId, eventIndex |-> NullId]
EventKey(fragmentId, eventIndex) == [fragmentId |-> fragmentId, eventIndex |-> eventIndex]
defaultLiveKey == EventKey(DefaultFragmentId, DefaultEventIndex)
nextKey(key) == EventKey(key.fragmentId, key.eventIndex + 1)
nextFragmentKey(key) == EventKey(key.fragmentId + 1, DefaultEventIndex)
\* the total order of EventKeys: fragmentId first, then eventIndex
KeyLess(k1, k2) ==
    \/ k1.fragmentId < k2.fragmentId
    \/ k1.fragmentId = k2.fragmentId /\ k1.eventIndex < k2.eventIndex

MEMBER_EVENT_TYPE == "m.room.member"

\* event ids a timeline section can carry, and those a state section can carry
TimelineIds == {"a", "b", "c"}
StateIds == {"s", "t"}
Users == {"u1"}
StateTypes == {"m.room.topic"}

\* the event with a given event_id: "a" is a message, "b" and "s" are member
\* events of u1 that set a display name, "c" and "t" are topic state events
EventOf(id) ==
    CASE id = "a" -> [event_id |-> "a", type |-> "m.room.message", sender |-> "u1",
                      hasStateKey |-> FALSE, state_key |-> "undefined", displayName |-> "undefined"]
      [] id = "b" -> [event_id |-> "b", type |-> MEMBER_EVENT_TYPE, sender |-> "u1",
                      hasStateKey |-> TRUE, state_key |-> "u1", displayName |-> "B"]
      [] id = "c" -> [event_id |-> "c", type |-> "m.room.topic", sender |-> "u1",
                      hasStateKey |-> TRUE, state_key |-> "", displayName |-> "undefined"]
      [] id = "s" -> [event_id |-> "s", type |-> MEMBER_EVENT_TYPE, sender |-> "u1",
                      hasStateKey |-> TRUE, state_key |-> "u1", displayName |-> "S"]
      [] OTHER    -> [event_id |-> id, type |-> "m.room.topic", sender |-> "u1",
                      hasStateKey |-> TRUE, state_key |-> "", displayName |-> "undefined"]

\* sequences over S of length 0..n
RECURSIVE SeqsUpTo(_, _)
SeqsUpTo(S, n) ==
    IF n = 0 THEN {<<>>}
    ELSE LET shorter == SeqsUpTo(S, n - 1)
         IN shorter \cup {Append(s, x) : s \in {q \in shorter : Len(q) = n - 1}, x \in S}

\* the timeline section of a room response; present = FALSE is a response
\* without timeline, hasEvents = FALSE a timeline without events list
Timeline(present, hasEvents, events, limited, prev_batch) ==
    [present |-> present, hasEvents |-> hasEvents, events |-> events,
     limited |-> limited, prev_batch |-> prev_batch]
NoTimeline == Timeline(FALSE, FALSE, <<>>, FALSE, "undefined")
PrevBatches == {"undefined", "p"}
Timelines ==
    {NoTimeline}
    \cup {Timeline(TRUE, FALSE, <<>>, l, "undefined") : l \in BOOLEAN}
    \cup {Timeline(TRUE, TRUE, es, l, p) :
            es \in SeqsUpTo(TimelineIds, MaxLen), l \in BOOLEAN, p \in PrevBatches}

\* the state section: hasEvents = FALSE is a response without state section
StateSection(hasEvents, events) == [hasEvents |-> hasEvents, events |-> events]
StateSections == {StateSection(FALSE, <<>>), StateSection(TRUE, <<"s", "t">>)}

\* the responses fed to the writer: every timeline, and every state section
\* and prev_batch together with the timelines of at most one event
RoomResponses ==
    {r \in [timeline : Timelines, state : StateSections] :
        \/ Len(r.timeline.events) <= 1
        \/ ~r.state.hasEvents /\ r.timeline.prev_batch = "p"}

\* ------------------------------------------------------------ the storage
\* a transaction's view of the room's stores; log is the sequence of the
\* store operations made in the transaction so far
EmptyStore ==
    [fragments |-> {},
     events |-> <<>>,
     roomState |-> [t \in StateTypes |-> "null"],
     members |-> [u \in Users |-> "null"],
     log |-> <<>>]

\* the transaction after one more store operation
logged(txn, operation) == [txn EXCEPT !.log = Append(@, operation)]
\* the stores as a committed transaction leaves them
committed(txn) == [txn EXCEPT !.log = <<>>]

Fragment(id, previousId, nextId, previousToken, nextToken) ==
    [id |-> id, previousId |-> previousId, nextId |-> nextId,
     previousToken |-> previousToken, nextToken |-> nextToken]

\* txn.timelineFragments.liveFragment(roomId): the open end of the chain
liveFragment(txn) ==
    LET open == {f \in txn.fragments : f.nextId = NullId}
    IN IF open = {} THEN <<>>
       ELSE <<CHOOSE f \in open : \A g \in open : g.id <= f.id>>

\* txn.timelineFragments.get(roomId, fragmentId)
getFragment(txn, fragmentId) ==
    LET found == {f \in txn.fragments : f.id = fragmentId}
    IN IF found = {} THEN <<>> ELSE <<CHOOSE f \in found : TRUE>>

\* txn.timelineFragments.add(fragment)
addFragment(txn, fragment) ==
    logged([txn EXCEPT !.fragments = @ \cup {fragment}], "timelineFragments.add")

\* txn.timelineFragments.update(fragment): replaces the row with the same id
updateFragment(txn, fragment) ==
    logged([txn EXCEPT !.fragments = {f \in @ : f.id # fragment.id} \cup {fragment}],
           "timelineFragments.update")

\* txn.timelineEvents.lastEvents(roomId, fragmentId, 1)
lastEvents(txn, fragmentId) ==
    LET idx == {i \in 1..Len(txn.events) : txn.events[i].fragmentId = fragmentId}
    IN IF idx = {} THEN <<>>
       ELSE <<txn.events[CHOOSE i \in idx :
                \A j \in idx : txn.events[j].eventIndex <= txn.events[i].eventIndex]>>

\* txn.timelineEvents.insert(storageEntry)
insertEvent(txn, storageEntry) ==
    logged([txn EXCEPT !.events = Append(@, storageEntry)], "timelineEvents.insert")

\* txn.roomState.set(roomId, event)
roomStateSet(txn, event) ==
    logged([txn EXCEPT !.roomState[event.type] = event.event_id], "roomState.set")

\* ------------------------------------------------- the ordering comparer
EmptyComparer == [ids |-> {}, links |-> {}]
\* fragmentIdComparer.add(fragment)
comparerAdd(cmp, fragment) == [cmp EXCEPT !.ids = @ \cup {fragment.id}]
\* fragmentIdComparer.append(newFragmentId, afterFragmentId)
comparerAppend(cmp, newId, afterId) ==
    [ids |-> cmp.ids \cup {newId}, links |-> cmp.links \cup {<<afterId, newId>>}]

\* ------------------------------------------------------ the member writer
NoChange == "none"
\* memberWriter.lookupMember(sender, event, events, txn): the profile stored
\* for the sender, <<>> when there is none
lookupMember(txn, sender) ==
    IF txn.members[sender] = "null" THEN <<>>
    ELSE <<[displayName |-> txn.members[sender]]>>

\* memberWriter.writeStateMemberEvent / writeTimelineMemberEvent: stores the
\* member and yields a MemberChange unless the stored profile is the same
writeMemberEvent(txn, event) ==
    [txn |-> logged([txn EXCEPT !.members[event.state_key] = event.displayName],
                    "memberWriter.write"),
     change |-> IF txn.members[event.state_key] = event.displayName
                THEN NoChange ELSE event.event_id]

\* ------------------------------------------------------------- entries
\* createEventEntry(key, roomId, event)
createEventEntry(key, event) ==
    [kind |-> "event", fragmentId |-> key.fragmentId, eventIndex |-> key.eventIndex,
     event_id |-> event.event_id, displayName |-> "undefined"]
\* FragmentBoundaryEntry.start(fragment) / FragmentBoundaryEntry.end(fragment)
BoundaryEntry(kind, fragment) ==
    [kind |-> kind, fragmentId |-> fragment.id, eventIndex |-> NullId,
     event_id |-> "undefined", displayName |-> "undefined"]

\* ----------------------------------------------------------- SyncWriter
\* a transaction and the in-memory comparer, as the writer's methods see them
World(txn, cmp) == [txn |-> txn, cmp |-> cmp]

\* what a method yields after a step whose result it binds (const value =
\* await ...): the one element of {rest(value) : value \in {step}}
Await(outcomes) == CHOOSE outcome \in outcomes : TRUE

RECURSIVE FilterFirstSeen(_, _, _)
\* events.filter(e => ...) with the set of event ids seen so far
FilterFirstSeen(events, i, eventIds) ==
    IF i > Len(events) THEN <<>>
    ELSE IF events[i] \in eventIds
         THEN FilterFirstSeen(events, i + 1, eventIds)
         ELSE <<events[i]>> \o FilterFirstSeen(events, i + 1, eventIds \cup {events[i]})

\* a deduplicateEvents that drops nothing
deduplicateEvents_none(events) == events

\* a deduplicateEvents that keeps the last occurrence of an event id
deduplicateEvents_last(events) ==
    LET keep == {i \in 1..Len(events) : \A j \in (i + 1)..Len(events) : events[j] # events[i]}
        nth(k) == CHOOSE i \in keep : Cardinality({j \in keep : j <= i}) = k
    IN [k \in 1..Cardinality(keep) |-> events[nth(k)]]

deduplicateEvents(events) == FilterFirstSeen(events, 1, {})

\* a load that takes the start of the live fragment, whatever events it holds
load_fragmentStart(txn, lastLiveKey) ==
    LET live == liveFragment(txn)
        read == logged(txn, "timelineFragments.liveFragment")
    IN IF Len(live) > 0
       THEN [txn |-> read,
             lastLiveKey |-> EventKey(live[1].id, defaultLiveKey.eventIndex)]
       ELSE [txn |-> read, lastLiveKey |-> lastLiveKey]

\* a load that makes sure the room has a live fragment
load_creating(txn, lastLiveKey) ==
    LET live == liveFragment(txn)
        read == logged(txn, "timelineFragments.liveFragment")
    IN IF Len(live) > 0
       THEN LET lastEvent == lastEvents(txn, live[1].id)
                eventIndex == IF Len(lastEvent) > 0 THEN lastEvent[1].eventIndex
                              ELSE defaultLiveKey.eventIndex
            IN [txn |-> logged(read, "timelineEvents.lastEvents"),
                lastLiveKey |-> EventKey(live[1].id, eventIndex)]
       ELSE [txn |-> addFragment(read, Fragment(defaultLiveKey.fragmentId, NullId, NullId,
                                                "null", "null")),
             lastLiveKey |-> defaultLiveKey]

\* SyncWriter.load: the key of the last event of the live fragment
load(txn, lastLiveKey) ==
    LET live == liveFragment(txn)
        read == logged(txn, "timelineFragments.liveFragment")
    IN IF Len(live) > 0
       THEN LET lastEvent == lastEvents(txn, live[1].id)
                eventIndex == IF Len(lastEvent) > 0 THEN lastEvent[1].eventIndex
                              ELSE defaultLiveKey.eventIndex
            IN [txn |-> logged(read, "timelineEvents.lastEvents"),
                lastLiveKey |-> EventKey(live[1].id, eventIndex)]
       ELSE [txn |-> read, lastLiveKey |-> lastLiveKey]

\* SyncWriter._createLiveFragment
createLiveFragment(w, previousToken) ==
    LET live == liveFragment(w.txn)
        read == logged(w.txn, "timelineFragments.liveFragment")
    IN IF Len(live) = 0
       THEN LET fragment == Fragment(defaultLiveKey.fragmentId, NullId, NullId,
                                     IF previousToken \in {"undefined", "null", ""}
                                     THEN "null" ELSE previousToken,
                                     "null")
            IN [w |-> World(addFragment(read, fragment), comparerAdd(w.cmp, fragment)),
                fragment |-> fragment]
       ELSE [w |-> World(read, w.cmp), fragment |-> live[1]]

\* an old live fragment that is left as the open end of the chain
sealOldFragment_unlinked(oldFragment, newFragmentId) == oldFragment

\* an old live fragment written again from its ids only
sealOldFragment_rebuilt(oldFragment, newFragmentId) ==
    Fragment(oldFragment.id, NullId, newFragmentId, "null", "null")

\* oldFragment.nextId = newFragmentId
sealOldFragment(oldFragment, newFragmentId) ==
    [oldFragment EXCEPT !.nextId = newFragmentId]

\* a new fragment that has the old fragment as its next one, not as its
\* previous one
newLiveFragment_reversed(newFragmentId, oldFragmentId, previousToken) ==
    Fragment(newFragmentId, NullId, oldFragmentId, previousToken, "null")

\* a new fragment that does not point back to the fragment it follows
newLiveFragment_noPrevious(newFragmentId, oldFragmentId, previousToken) ==
    Fragment(newFragmentId, NullId, NullId, previousToken, "null")

\* const newFragment = {id: newFragmentId, previousId: oldFragmentId, ...}
newLiveFragment(newFragmentId, oldFragmentId, previousToken) ==
    Fragment(newFragmentId, oldFragmentId, NullId, previousToken, "null")

\* a replacement that, instead of failing, writes the missing old fragment
\* again and goes on
missingOldFragment_recreated(w, oldFragmentId, newFragmentId) ==
    LET oldFragment == Fragment(oldFragmentId, NullId, newFragmentId, "null", "null")
        newFragment == Fragment(newFragmentId, oldFragmentId, NullId, "null", "null")
    IN [threw |-> FALSE,
        w |-> World(addFragment(updateFragment(w.txn, oldFragment), newFragment),
                    comparerAppend(w.cmp, newFragmentId, oldFragmentId)),
        oldFragment |-> oldFragment,
        newFragment |-> newFragment]

\* if (!oldFragment) throw new Error("old live fragment doesn't exist")
missingOldFragment(w, oldFragmentId, newFragmentId) ==
    [threw |-> TRUE, w |-> w,
     oldFragment |-> Fragment(oldFragmentId, NullId, NullId, "null", "null"),
     newFragment |-> Fragment(newFragmentId, NullId, NullId, "null", "null")]

\* SyncWriter._replaceLiveFragment
replaceLiveFragment(w, oldFragmentId, newFragmentId, previousToken) ==
    LET found == getFragment(w.txn, oldFragmentId)
        read == World(logged(w.txn, "timelineFragments.get"), w.cmp)
    IN IF Len(found) = 0
       THEN missingOldFragment(read, oldFragmentId, newFragmentId)
       ELSE LET oldFragment == sealOldFragment(found[1], newFragmentId)
                newFragment == newLiveFragment(newFragmentId, oldFragmentId, previousToken)
            IN [threw |-> FALSE,
                w |-> World(addFragment(updateFragment(read.txn, oldFragment), newFragment),
                            comparerAppend(w.cmp, newFragmentId, oldFragmentId)),
                oldFragment |-> oldFragment,
                newFragment |-> newFragment]

\* a writer that opens a new fragment for every timeline it writes
needsNewFragment_always(timeline) == TRUE

\* else if (timeline.limited)
needsNewFragment(timeline) == timeline.limited

\* SyncWriter._ensureLiveFragment
ensureLiveFragment(currentKey, entries, timeline, w) ==
    IF currentKey = NullKey
    THEN LET created == createLiveFragment(w, timeline.prev_batch)
         IN [threw |-> FALSE, w |-> created.w,
             currentKey |-> EventKey(created.fragment.id, defaultLiveKey.eventIndex),
             entries |-> Append(entries, BoundaryEntry("start", created.fragment))]
    ELSE IF needsNewFragment(timeline)
    THEN LET oldFragmentId == currentKey.fragmentId
             newKey == nextFragmentKey(currentKey)
             replaced == replaceLiveFragment(w, oldFragmentId, newKey.fragmentId,
                                             timeline.prev_batch)
         IN IF replaced.threw
            THEN [threw |-> TRUE, w |-> replaced.w, currentKey |-> newKey,
                  entries |-> entries]
            ELSE [threw |-> FALSE, w |-> replaced.w, currentKey |-> newKey,
                  entries |-> entries \o <<BoundaryEntry("end", replaced.oldFragment),
                                           BoundaryEntry("start", replaced.newFragment)>>]
    ELSE [threw |-> FALSE, w |-> w, currentKey |-> currentKey, entries |-> entries]

NoMemberChanges == [u \in Users |-> NoChange]

\* a map in which the first change of a user stays
setMemberChange_keepFirst(memberChanges, userId, change) ==
    IF change # NoChange /\ memberChanges[userId] = NoChange
    THEN [memberChanges EXCEPT ![userId] = change]
    ELSE memberChanges

\* if (memberChange) memberChanges.set(memberChange.userId, memberChange)
setMemberChange(memberChanges, userId, change) ==
    IF change # NoChange
    THEN [memberChanges EXCEPT ![userId] = change]
    ELSE memberChanges

RECURSIVE writeStateEventsFrom(_, _, _, _)
\* the loop of _writeStateEvents from the i-th event of state.events on
writeStateEventsFrom(events, i, memberChanges, txn) ==
    IF i > Len(events) THEN [txn |-> txn, memberChanges |-> memberChanges]
    ELSE LET event == EventOf(events[i])
         IN IF event.type = MEMBER_EVENT_TYPE
            THEN LET written == writeMemberEvent(txn, event)
                 IN writeStateEventsFrom(events, i + 1,
                        setMemberChange(memberChanges, event.state_key, written.change),
                        written.txn)
            ELSE writeStateEventsFrom(events, i + 1, memberChanges,
                                      roomStateSet(txn, event))

\* SyncWriter._writeStateEvents
writeStateEvents(roomResponse, memberChanges, txn) ==
    IF roomResponse.state.hasEvents
    THEN writeStateEventsFrom(roomResponse.state.events, 1, memberChanges, txn)
    ELSE [txn |-> txn, memberChanges |-> memberChanges]

\* a key that is advanced twice for each event
advanceKey_skipping(currentKey) == nextKey(nextKey(currentKey))

\* a key that is not advanced from one event to the next
advanceKey_stuck(currentKey) == currentKey

\* currentKey = currentKey.nextKey()
advanceKey(currentKey) == nextKey(currentKey)

\* a loop body that writes the member or state update of an event before it
\* looks the sender up and inserts the event
writeTimelineEvent_memberFirst(id, acc) ==
    LET event == EventOf(id)
        currentKey == advanceKey(acc.currentKey)
        written == IF event.hasStateKey /\ event.type = MEMBER_EVENT_TYPE
                   THEN writeMemberEvent(acc.txn, event)
                   ELSE [txn |-> IF event.hasStateKey
                                 THEN roomStateSet(acc.txn, event) ELSE acc.txn,
                         change |-> NoChange]
        member == lookupMember(written.txn, event.sender)
        read == logged(written.txn, "memberWriter.lookupMember")
        created == createEventEntry(currentKey, event)
        storageEntry == IF Len(member) > 0
                        THEN [created EXCEPT !.displayName = member[1].displayName]
                        ELSE created
    IN [txn |-> insertEvent(read, storageEntry), currentKey |-> currentKey,
        entries |-> Append(acc.entries, storageEntry),
        memberChanges |->
            IF event.hasStateKey /\ event.type = MEMBER_EVENT_TYPE
            THEN setMemberChange(acc.memberChanges, event.state_key, written.change)
            ELSE acc.memberChanges]

\* one iteration of the loop of _writeTimeline
writeTimelineEvent(id, acc) ==
    LET event == EventOf(id)
        currentKey == advanceKey(acc.currentKey)
        member == lookupMember(acc.txn, event.sender)
        read == logged(acc.txn, "memberWriter.lookupMember")
        created == createEventEntry(currentKey, event)
        storageEntry == IF Len(member) > 0
                        THEN [created EXCEPT !.displayName = member[1].displayName]
                        ELSE created
        inserted == insertEvent(read, storageEntry)
        entries == Append(acc.entries, storageEntry)
    IN IF event.hasStateKey
       THEN IF event.type = MEMBER_EVENT_TYPE
            THEN LET written == writeMemberEvent(inserted, event)
                 IN [txn |-> written.txn, currentKey |-> currentKey, entries |-> entries,
                     memberChanges |->
                        setMemberChange(acc.memberChanges, event.state_key,
                                        written.change)]
            ELSE [txn |-> roomStateSet(inserted, event), currentKey |-> currentKey,
                  entries |-> entries, memberChanges |-> acc.memberChanges]
       ELSE [txn |-> inserted, currentKey |-> currentKey, entries |-> entries,
             memberChanges |-> acc.memberChanges]

RECURSIVE writeTimelineEventsFrom(_, _, _)
\* the loop of _writeTimeline from the i-th deduplicated event on
writeTimelineEventsFrom(events, i, acc) ==
    IF i > Len(events) THEN acc
    ELSE Await({writeTimelineEventsFrom(events, i + 1, next) :
                   next \in {writeTimelineEvent(events[i], acc)}})

\* SyncWriter._writeTimeline
writeTimeline(timeline, currentKey, memberChanges, w) ==
    IF timeline.present /\ timeline.hasEvents /\ Len(timeline.events) > 0
    THEN Await({
            IF ensured.threw
            THEN [threw |-> TRUE, w |-> ensured.w, currentKey |-> currentKey,
                  entries |-> <<>>, memberChanges |-> memberChanges]
            ELSE Await({
                    [threw |-> FALSE, w |-> World(done.txn, ensured.w.cmp),
                     currentKey |-> done.currentKey, entries |-> done.entries,
                     memberChanges |-> done.memberChanges] :
                    done \in {writeTimelineEventsFrom(events, 1,
                                [txn |-> ensured.w.txn, currentKey |-> ensured.currentKey,
                                 entries |-> ensured.entries,
                                 memberChanges |-> memberChanges])}}) :
            ensured \in {ensureLiveFragment(currentKey, <<>>, timeline, w)},
            events \in {deduplicateEvents(timeline.events)}})
    ELSE [threw |-> FALSE, w |-> w, currentKey |-> currentKey, entries |-> <<>>,
          memberChanges |-> memberChanges]

\* events.findIndex(event => event.event_id === lastEventId), counted from 1;
\* 0 when there is none
findIndex(events, lastEventId) ==
    LET hits == {i \in 1..Len(events) : events[i] = lastEventId}
    IN IF hits = {} THEN 0 ELSE CHOOSE i \in hits : \A j \in hits : i <= j

\* an overlap that keeps the overlapping event: events.slice(index)
overlapRemainder_inclusive(events, index) == SubSeq(events, index, Len(events))

\* events.slice(index + 1), for index counted from 1
overlapRemainder(events, index) == SubSeq(events, index + 1, Len(events))

\* a rejoin without overlap that leaves the timeline as the server sent it
forceLimited_asSent(timeline) == timeline

\* if (!timeline.limited) return Object.assign({}, timeline, {limited: true})
forceLimited(timeline) ==
    IF ~timeline.limited THEN [timeline EXCEPT !.limited = TRUE] ELSE timeline

\* SyncWriter._handleRejoinOverlap; threw is the TypeError of reading a
\* property of an undefined timeline or events list
handleRejoinOverlap(timeline, txn, lastLiveKey) ==
    LET lastEvent == IF lastLiveKey # NullKey
                     THEN lastEvents(txn, lastLiveKey.fragmentId) ELSE <<>>
        read == IF lastLiveKey # NullKey
                THEN logged(txn, "timelineEvents.lastEvents") ELSE txn
        index == IF Len(lastEvent) > 0 /\ timeline.present /\ timeline.hasEvents
                 THEN findIndex(timeline.events, lastEvent[1].event_id) ELSE 0
    IN IF Len(lastEvent) > 0 /\ (~timeline.present \/ ~timeline.hasEvents)
       THEN [threw |-> TRUE, txn |-> read, timeline |-> timeline]
       ELSE IF index # 0
       THEN [threw |-> FALSE, txn |-> read,
             timeline |-> [timeline EXCEPT !.limited = FALSE,
                                           !.events = overlapRemainder(timeline.events, index)]]
       ELSE IF ~timeline.present
       THEN [threw |-> TRUE, txn |-> read, timeline |-> timeline]
       ELSE [threw |-> FALSE, txn |-> read, timeline |-> forceLimited(timeline)]

\* the result of a writeSync call and the world it leaves; when threw, the
\* call returned nothing and the fields of the result are not meaningful
Outcome(threw, w, timeline, entries, newLiveKey, memberChanges) ==
    [threw |-> threw, w |-> w, timeline |-> timeline, entries |-> entries,
     updatedEntries |-> <<>>, newLiveKey |-> newLiveKey, memberChanges |-> memberChanges]

\* a writeSync that writes the timeline before the state section
writeSync_stateLast(roomResponse, isRejoin, w, lastLiveKey) ==
    LET rejoined == IF isRejoin
                    THEN handleRejoinOverlap(roomResponse.timeline, w.txn, lastLiveKey)
                    ELSE [threw |-> FALSE, txn |-> w.txn,
                          timeline |-> roomResponse.timeline]
        timeline == rejoined.timeline
        written == writeTimeline(timeline, lastLiveKey, NoMemberChanges,
                                 World(rejoined.txn, w.cmp))
        state == writeStateEvents(roomResponse, written.memberChanges, written.w.txn)
    IN IF rejoined.threw
       THEN Outcome(TRUE, World(rejoined.txn, w.cmp), timeline, <<>>, NullKey,
                    NoMemberChanges)
       ELSE IF written.threw
       THEN Outcome(TRUE, written.w, timeline, <<>>, NullKey, NoMemberChanges)
       ELSE Outcome(FALSE, World(state.txn, written.w.cmp), timeline, written.entries,
                    written.currentKey, state.memberChanges)

\* SyncWriter.writeSync
writeSync(roomResponse, isRejoin, w, lastLiveKey) ==
    Await({
        IF rejoined.threw
        THEN Outcome(TRUE, World(rejoined.txn, w.cmp), rejoined.timeline, <<>>, NullKey,
                     NoMemberChanges)
        ELSE Await({Await({
                IF written.threw
                THEN Outcome(TRUE, written.w, rejoined.timeline, <<>>, NullKey,
                             NoMemberChanges)
                ELSE Outcome(FALSE, written.w, rejoined.timeline, written.entries,
                             written.currentKey, written.memberChanges) :
                written \in {writeTimeline(rejoined.timeline, lastLiveKey,
                                           state.memberChanges,
                                           World(state.txn, w.cmp))}}) :
                state \in {writeStateEvents(roomResponse, NoMemberChanges,
                                            rejoined.txn)}}) :
        rejoined \in {IF isRejoin
                      THEN handleRejoinOverlap(roomResponse.timeline, w.txn, lastLiveKey)
                      ELSE [threw |-> FALSE, txn |-> w.txn,
                            timeline |-> roomResponse.timeline]}})

\* writeSync has no assignment to this._lastLiveKey; this one would have
lastLiveKeyDuringWrite_advanced(lastLiveKey, newLiveKey) == newLiveKey

\* this._lastLiveKey over a writeSync call
lastLiveKeyDuringWrite(lastLiveKey, newLiveKey) == lastLiveKey

\* an afterSync that keeps the position after the key it is given
afterSync_next(newLiveKey) == nextKey(newLiveKey)

\* SyncWriter.afterSync
afterSync(newLiveKey) == newLiveKey

\* ------------------------------------------------------ the state machine
VARIABLES
    store,        \* the committed content of the room's stores
    lastLiveKey,  \* SyncWriter._lastLiveKey
    comparer,     \* the fragmentIdComparer the writer was constructed with
    pc,           \* where the room is in its sync cycle
    call,         \* the writeSync call in progress: its arguments and outcome
    nSyncs        \* number of sync responses processed so far

vars == <<store, lastLiveKey, comparer, pc, call, nSyncs>>

NoOutcome == Outcome(FALSE, World(EmptyStore, EmptyComparer), NoTimeline, <<>>, NullKey,
                     NoMemberChanges)
NoResponse == [timeline |-> NoTimeline, state |-> StateSection(FALSE, <<>>)]
Call(roomResponse, isRejoin, keyBefore, cmpBefore, out, isRetry, first) ==
    [roomResponse |-> roomResponse, isRejoin |-> isRejoin, keyBefore |-> keyBefore,
     cmpBefore |-> cmpBefore, out |-> out, isRetry |-> isRetry, first |-> first]
NoCall == Call(NoResponse, FALSE, NullKey, EmptyComparer, NoOutcome, FALSE, NoOutcome)

\* the comparer a room builds from the stored fragments when it is loaded
comparerOf(txn) ==
    [ids |-> {f.id : f \in txn.fragments},
     links |-> {<<f.id, f.nextId>> : f \in {g \in txn.fragments : g.nextId # NullId}}]

\* new SyncWriter(...): this._lastLiveKey = null
Init ==
    /\ store = EmptyStore
    /\ lastLiveKey = NullKey
    /\ comparer = EmptyComparer
    /\ pc = "constructed"
    /\ call = NoCall
    /\ nSyncs = 0

\* the client is restarted: a new writer is constructed over the stored room
Restart ==
    /\ pc = "idle"
    /\ lastLiveKey' = NullKey
    /\ comparer' = comparerOf(store)
    /\ pc' = "constructed"
    /\ UNCHANGED <<store, call, nSyncs>>

\* load(txn, log) in a transaction of its own, at startup or again later
Load ==
    /\ pc \in {"constructed", "idle"}
    /\ \E loaded \in {load(store, lastLiveKey)} :
          /\ lastLiveKey' = loaded.lastLiveKey
          /\ store' = committed(loaded.txn)
    /\ pc' = "idle"
    /\ UNCHANGED <<comparer, call, nSyncs>>

\* writeSync(roomResponse, isRejoin, txn, log) in a transaction of its own
WriteSync(roomResponse, isRejoin) ==
    /\ pc = "idle"
    /\ nSyncs < MaxSyncs
    /\ \E out \in {writeSync(roomResponse, isRejoin, World(store, comparer), lastLiveKey)} :
          /\ call' = Call(roomResponse, isRejoin, lastLiveKey, comparer, out, FALSE,
                       NoOutcome)
          /\ comparer' = out.w.cmp
          /\ lastLiveKey' = lastLiveKeyDuringWrite(lastLiveKey, out.newLiveKey)
    /\ pc' = "written"
    /\ nSyncs' = nSyncs + 1
    /\ UNCHANGED store

\* the transaction of a writeSync call that returned completes
Commit ==
    /\ pc = "written"
    /\ ~call.out.threw
    /\ store' = committed(call.out.w.txn)
    /\ pc' = "committed"
    /\ UNCHANGED <<lastLiveKey, comparer, call, nSyncs>>

\* afterSync(newLiveKey), once the transaction is committed
AfterSync ==
    /\ pc = "committed"
    /\ lastLiveKey' = afterSync(call.out.newLiveKey)
    /\ pc' = "idle"
    /\ call' = NoCall
    /\ UNCHANGED <<store, comparer, nSyncs>>

\* the transaction is abandoned, because writeSync threw or for a reason of
\* the caller's; the store is rolled back and afterSync is not called
Abort ==
    /\ pc = "written"
    /\ pc' = "aborted"
    /\ UNCHANGED <<store, lastLiveKey, comparer, call, nSyncs>>

\* the caller processes the same response again in a new transaction
Retry ==
    /\ pc = "aborted"
    /\ \E out \in {writeSync(call.roomResponse, call.isRejoin, World(store, comparer),
                              lastLiveKey)} :
          /\ call' = Call(call.roomResponse, call.isRejoin, lastLiveKey, comparer, out,
                       TRUE, call.out)
          /\ comparer' = out.w.cmp
          /\ lastLiveKey' = lastLiveKeyDuringWrite(lastLiveKey, out.newLiveKey)
    /\ pc' = "written"
    /\ UNCHANGED <<store, nSyncs>>

\* the caller drops the response of the abandoned transaction
GiveUp ==
    /\ pc = "aborted"
    /\ pc' = "idle"
    /\ call' = NoCall
    /\ UNCHANGED <<store, lastLiveKey, comparer, nSyncs>>

Next ==
    \/ Restart
    \/ Load
    \/ \E roomResponse \in RoomResponses, isRejoin \in BOOLEAN :
          WriteSync(roomResponse, isRejoin)
    \/ Commit
    \/ AfterSync
    \/ Abort
    \/ Retry
    \/ GiveUp

Spec == Init /\ [][Next]_vars

\* ------------------------------------------------ loading a stored room
MaxFragments == 3

RECURSIVE StoredEvents(_, _)
\* the entries of a fragment that holds count events, oldest first
StoredEvents(fragmentId, count) ==
    IF count = 0 THEN <<>>
    ELSE Append(StoredEvents(fragmentId, count - 1),
                createEventEntry(EventKey(fragmentId, DefaultEventIndex + count),
                                 EventOf("a")))

RECURSIVE StoredChainEvents(_, _)
\* the entries of the first n fragments of a chain, counts[k] in the k-th
StoredChainEvents(counts, n) ==
    IF n = 0 THEN <<>>
    ELSE StoredChainEvents(counts, n - 1)
            \o StoredEvents(DefaultFragmentId + n - 1, counts[n])

\* a stored room: a chain of Len(counts) fragments, the last of them the
\* live one unless sealed, which leaves the room without live fragment
StoredRoom(counts, sealed) ==
    LET n == Len(counts)
        first == DefaultFragmentId
    IN [EmptyStore EXCEPT
            !.fragments =
                {Fragment(first + k - 1,
                          IF k = 1 THEN NullId ELSE first + k - 2,
                          IF k = n /\ ~sealed THEN NullId ELSE first + k,
                          "null", "null") : k \in 1..n},
            !.events = StoredChainEvents(counts, n)]

StoredRooms ==
    {StoredRoom(counts, sealed) :
        counts \in UNION {[1..n -> 0..MaxLen] : n \in 0..MaxFragments},
        sealed \in BOOLEAN}

\* new SyncWriter(...) over a room stored by an earlier run of the client
InitStored ==
    /\ store \in StoredRooms
    /\ lastLiveKey = NullKey
    /\ comparer = comparerOf(store)
    /\ pc = "constructed"
    /\ call = NoCall
    /\ nSyncs = 0

NextLoad ==
    \/ Load
    \/ Restart

SpecLoad == InitStored /\ [][NextLoad]_vars

\* ------------------------------------------------- a store that is lost
\* the stored room is deleted behind the writer, which keeps its key
StorageLost ==
    /\ pc = "idle"
    /\ store.fragments # {}
    /\ store' = EmptyStore
    /\ UNCHANGED <<lastLiveKey, comparer, pc, call, nSyncs>>

NextCorrupt ==
    \/ Next
    \/ StorageLost

SpecCorrupt == Init /\ [][NextCorrupt]_vars

\* ------------------------------------------------- what a call has done
\* the transaction of the call in progress, and what it holds more than the
\* committed store
Txn == call.out.w.txn
InCall == pc = "written"
Returned == pc = "written" /\ ~call.out.threw
WrittenEvents == SubSeq(Txn.events, Len(store.events) + 1, Len(Txn.events))
WrittenIds == [i \in 1..Len(WrittenEvents) |-> WrittenEvents[i].event_id]
CreatedFragments == {f \in Txn.fragments : \A g \in store.fragments : g.id # f.id}
EventEntries == SelectSeq(call.out.entries, LAMBDA e : e.kind = "event")
BoundaryEntries == SelectSeq(call.out.entries, LAMBDA e : e.kind # "event")
SentTimeline == call.roomResponse.timeline
SentEvents == SentTimeline.events
HasEventList == SentTimeline.present /\ SentTimeline.hasEvents

RECURSIVE FirstOccurrences(_)
\* the elements of a sequence in order, each at its first occurrence only
FirstOccurrences(seq) ==
    IF seq = <<>> THEN <<>>
    ELSE LET front == SubSeq(seq, 1, Len(seq) - 1)
             last == seq[Len(seq)]
         IN IF \E j \in 1..Len(front) : front[j] = last
            THEN FirstOccurrences(front)
            ELSE Append(FirstOccurrences(front), last)

Range(seq) == {seq[i] : i \in 1..Len(seq)}
KeyOf(entry) == EventKey(entry.fragmentId, entry.eventIndex)
StrictlyIncreasingKeys(entries) ==
    \A i, j \in 1..Len(entries) : i < j => KeyLess(KeyOf(entries[i]), KeyOf(entries[j]))

\* the last stored event of the fragment the writer's key is in, when the
\* call started
LastStored == lastEvents(store, call.keyBefore.fragmentId)
HasLastStored == call.keyBefore # NullKey /\ Len(LastStored) > 0
\* the events of the sent timeline that follow the first occurrence of id
After(events, id) ==
    LET first == CHOOSE i \in 1..Len(events) :
                    events[i] = id /\ \A j \in 1..(i - 1) : events[j] # id
    IN SubSeq(events, first + 1, Len(events))

\* ------------------------------------------------------------------ C1
\* C1 (as claimed): no two stored timeline entries of the room carry the
\* same event id, whatever repeats the responses carry inside a batch,
\* across batches or on rejoin.
C1_NoDuplicateEventIds ==
    pc = "idle" =>
        \A i, j \in 1..Len(store.events) :
            i # j => store.events[i].event_id # store.events[j].event_id

\* ------------------------------------------------------------------ C2
RejoinOverlap ==
    /\ InCall /\ call.isRejoin /\ HasLastStored /\ HasEventList
    /\ LastStored[1].event_id \in Range(SentEvents)

\* C2: on a rejoin whose timeline contains the last stored event E of the
\* writer's fragment, writeSync writes exactly the events that follow E
\* (each once), not E or what precedes it, into the existing live fragment,
\* and creates or changes no fragment, whatever `limited` the server sent.
C2_RejoinOverlapWritesRemainder ==
    RejoinOverlap =>
        LET E == LastStored[1].event_id
            rest == After(SentEvents, E)
        IN /\ ~call.out.threw
           /\ WrittenIds = FirstOccurrences(rest)
           /\ E \notin Range(rest) => E \notin Range(WrittenIds)
           /\ \A i \in 1..Len(WrittenEvents) :
                KeyOf(WrittenEvents[i]) =
                    EventKey(call.keyBefore.fragmentId, call.keyBefore.eventIndex + i)
           /\ Txn.fragments = store.fragments
           /\ BoundaryEntries = <<>>
           /\ EventEntries = WrittenEvents

\* a rejoin that sent [E, X, Y] with limited = true after E was stored
C2_Witness ==
    /\ RejoinOverlap
    /\ SentTimeline.limited
    /\ Len(SentEvents) = 3
    /\ SentEvents[1] = LastStored[1].event_id
    /\ Cardinality(Range(SentEvents)) = 3
    /\ WrittenIds = <<SentEvents[2], SentEvents[3]>>

\* ------------------------------------------------------------------ C3
RejoinNoOverlap ==
    /\ InCall /\ call.isRejoin /\ HasLastStored /\ HasEventList
    /\ LastStored[1].event_id \notin Range(SentEvents)

\* the call replaced the live fragment by a new one
ProducedNewFragment ==
    /\ ~call.out.threw
    /\ \E f \in CreatedFragments :
        /\ CreatedFragments = {f}
        /\ f.id = call.keyBefore.fragmentId + 1
        /\ f.previousId = call.keyBefore.fragmentId
        /\ f.nextId = NullId
        /\ call.out.newLiveKey.fragmentId = f.id

\* C3 (as claimed): on a rejoin whose timeline does not contain the last
\* stored event, the timeline is forced limited and a new fragment is
\* produced, even if the server reported limited = false.
C3_RejoinNoOverlapNewFragment ==
    RejoinNoOverlap => call.out.timeline.limited /\ ProducedNewFragment

\* C3 (amended): the same, for a timeline with at least one event.
C3_RejoinNoOverlapNewFragmentIfEvents ==
    RejoinNoOverlap /\ Len(SentEvents) > 0 =>
        call.out.timeline.limited /\ ProducedNewFragment

\* a rejoin without overlap whose timeline the server reported not limited
C3_Witness ==
    /\ RejoinNoOverlap
    /\ Len(SentEvents) > 0
    /\ ~SentTimeline.limited
    /\ ProducedNewFragment

\* ------------------------------------------------------------------ C4
\* C4: writeSync leaves lastLiveKey as it was, so that after an abandoned
\* transaction lastLiveKey is still the last committed position (the one
\* load finds in the store), and a retry with the same response against the
\* rolled-back store yields the same entries with the same keys, the same
\* fragment and event writes and the same newLiveKey as the first attempt.
C4_AbandonedWriteLeavesKeyAndRetryRepeats ==
    /\ pc \in {"written", "aborted"} =>
        /\ lastLiveKey = call.keyBefore
        /\ lastLiveKey = load(store, NullKey).lastLiveKey
    /\ pc = "written" /\ call.isRetry =>
        /\ call.out.threw = call.first.threw
        /\ call.out.entries = call.first.entries
        /\ call.out.newLiveKey = call.first.newLiveKey
        /\ call.out.w.txn = call.first.w.txn

\* a retry, after a first sync was committed, of an abandoned write that
\* opened a new fragment and wrote events
C4_Witness ==
    /\ pc = "written" /\ call.isRetry
    /\ call.keyBefore # NullKey
    /\ CreatedFragments # {}
    /\ Len(WrittenEvents) > 0

\* ------------------------------------------------------------------ C5
\* C5: the EventKeys of the stored events, in the order in which they were
\* written, are strictly increasing (fragmentId first, then eventIndex),
\* within a call and from one committed call to the next, also across a
\* fragment replacement; hence no key is assigned twice.
C5_KeysStrictlyIncreasing ==
    /\ StrictlyIncreasingKeys(store.events)
    /\ Returned => StrictlyIncreasingKeys(Txn.events)

\* committed events of two calls, in two fragments
C5_Witness ==
    /\ pc = "idle"
    /\ Len(store.events) >= 3
    /\ \E i, j \in 1..Len(store.events) :
        store.events[i].fragmentId # store.events[j].fragmentId

\* ------------------------------------------------------------------ C6
\* the live fragment when the call started
LiveBefore == liveFragment(store)
\* the call sealed F and opened a new fragment after it, with both boundaries
ReplacedLiveFragment(F) ==
    /\ ~call.out.threw
    /\ \E G \in Txn.fragments :
        /\ CreatedFragments = {G}
        /\ G.previousId = F.id
        /\ G.nextId = NullId
        /\ G.previousToken = SentTimeline.prev_batch
        /\ \E H \in Txn.fragments : H.id = F.id /\ H.nextId = G.id
        /\ Len(BoundaryEntries) = 2
        /\ BoundaryEntries[1].kind = "end" /\ BoundaryEntries[1].fragmentId = F.id
        /\ BoundaryEntries[2].kind = "start" /\ BoundaryEntries[2].fragmentId = G.id
        /\ SubSeq(call.out.entries, 1, 2) = BoundaryEntries

\* C6 (as claimed): every response with timeline.limited = true processed
\* by a writer with an existing live fragment F creates a new fragment F'
\* linked after F, with previousToken = prev_batch, and returns an
\* end-boundary for F followed by a start-boundary for F'.
C6_LimitedReplacesLiveFragment ==
    InCall /\ call.keyBefore # NullKey /\ Len(LiveBefore) > 0
           /\ SentTimeline.present /\ SentTimeline.limited
        => ReplacedLiveFragment(LiveBefore[1])

\* C6 (amended): the same for a response whose timeline has at least one
\* event and is still limited after the rejoin-overlap handling.
C6_LimitedWithEventsReplacesLiveFragment ==
    InCall /\ call.keyBefore # NullKey /\ Len(LiveBefore) > 0
           /\ SentTimeline.present /\ SentTimeline.limited
           /\ HasEventList /\ Len(SentEvents) > 0
           /\ call.out.timeline.limited
        => ReplacedLiveFragment(LiveBefore[1])

\* a limited sync, not a rejoin, after an earlier sync was committed
C6_Witness ==
    /\ InCall /\ ~call.isRejoin /\ call.keyBefore # NullKey
    /\ SentTimeline.limited /\ Len(SentEvents) > 0
    /\ Len(LiveBefore) > 0
    /\ ReplacedLiveFragment(LiveBefore[1])

\* ------------------------------------------------------------------ C7
\* the call created the room's first fragment and wrote n events into it
FirstFragmentWith(n) ==
    /\ ~call.out.threw
    /\ \E f \in Txn.fragments :
        /\ CreatedFragments = {f}
        /\ f.id = DefaultFragmentId /\ f.previousId = NullId /\ f.nextId = NullId
        /\ Len(EventEntries) = n
        /\ Len(WrittenEvents) = n
        /\ \A i \in 1..Len(EventEntries) : EventEntries[i].fragmentId = f.id
    /\ StrictlyIncreasingKeys(EventEntries)

\* C7 (as claimed): a writeSync call on a writer without prior key whose
\* response carries N timeline events creates exactly one fragment and
\* produces N strictly increasing EventKeys in that fragment.
C7_FirstSyncOneFragmentNKeys ==
    InCall /\ call.keyBefore = NullKey /\ HasEventList
        => FirstFragmentWith(Len(SentEvents))

\* C7 (amended): the same for N >= 1 events, with as many keys as there
\* are distinct event ids among the N events.
C7_FirstSyncOneFragmentDistinctKeys ==
    InCall /\ call.keyBefore = NullKey /\ HasEventList /\ Len(SentEvents) > 0
        => FirstFragmentWith(Cardinality(Range(SentEvents)))

\* a first sync of three events, two of them with the same id
C7_Witness ==
    /\ InCall /\ call.keyBefore = NullKey /\ HasEventList
    /\ Len(SentEvents) = 3
    /\ FirstFragmentWith(2)

\* ------------------------------------------------------------------ C8
OpenFragments(txn) == {f \in txn.fragments : f.nextId = NullId}

\* C8: between sync cycles, once an event is stored exactly one fragment of
\* the room has nextId = null and it is the fragment of lastLiveKey, the one
\* the next writeSync appends to; before the first write there is no fragment.
C8_OneLiveFragment ==
    pc = "idle" =>
        IF store.events = <<>>
        THEN store.fragments = {}
        ELSE \E f \in store.fragments :
                /\ OpenFragments(store) = {f}
                /\ f.id = lastLiveKey.fragmentId

\* a committed store of two fragments
C8_Witness ==
    /\ pc = "idle"
    /\ Cardinality(store.fragments) = 2
    /\ Cardinality(OpenFragments(store)) = 1

\* ------------------------------------------------------------------ C9
\* C9: one writeSync call stores and returns exactly one entry per distinct
\* event id of the batch, for each id at the place of its first occurrence
\* (the batch is the sent timeline, or what the rejoin-overlap handling left
\* of it).
C9_OneEntryPerEventIdInFirstSeenOrder ==
    InCall /\ HasEventList =>
        /\ ~call.out.threw
        /\ ~call.isRejoin => WrittenIds = FirstOccurrences(SentEvents)
        /\ WrittenIds = FirstOccurrences(call.out.timeline.events)
        /\ EventEntries = WrittenEvents

\* a batch, not of a rejoin, whose first event id comes again at the end
C9_Witness ==
    /\ Returned /\ ~call.isRejoin /\ HasEventList
    /\ Len(SentEvents) = 3
    /\ SentEvents[1] = SentEvents[3] /\ SentEvents[1] # SentEvents[2]
    /\ WrittenIds = <<SentEvents[1], SentEvents[2]>>

\* ----------------------------------------------------------------- C10
\* the members and room state the state section of the call sets
StateSectionWritten ==
    \A i \in 1..Len(call.roomResponse.state.events) :
        LET event == EventOf(call.roomResponse.state.events[i])
        IN IF event.type = MEMBER_EVENT_TYPE
           THEN Txn.members[event.state_key] = event.displayName
           ELSE Txn.roomState[event.type] = event.event_id

\* C10 (as claimed): writeSync on a response without timeline, or with an
\* empty events list, raises no error and writes no timeline entry, with
\* isRejoin false or true; a state section that is present is written.
C10_MalformedInputTolerated ==
    InCall /\ (~SentTimeline.present \/ (HasEventList /\ SentEvents = <<>>)) =>
        /\ ~call.out.threw
        /\ Txn.events = store.events
        /\ call.roomResponse.state.hasEvents => StateSectionWritten

\* ----------------------------------------------------------------- C11
\* a room never synced receives one timeline event a, not limited
FirstSyncOfOneEvent ==
    /\ InCall /\ ~call.isRejoin
    /\ call.keyBefore = NullKey /\ store.fragments = {} /\ store.events = <<>>
    /\ HasEventList /\ SentEvents = <<"a">> /\ ~SentTimeline.limited
\* the call created one fragment, with the default id, and returned one
\* event entry, for a, in that fragment
OneDefaultFragmentOneEntry ==
    /\ ~call.out.threw
    /\ \E f \in Txn.fragments : Txn.fragments = {f} /\ f.id = DefaultFragmentId
    /\ Len(EventEntries) = 1
    /\ EventEntries[1].event_id = "a"
    /\ EventEntries[1].fragmentId = DefaultFragmentId

\* C11 (as claimed): for a room never synced, writeSync of one timeline
\* event a with limited=false creates one fragment with the default id,
\* returns one event entry in it, and returns as newLiveKey the position
\* immediately after that entry's key (its nextKey()).
C11_FirstSyncNewLiveKeyIsNextOfEntryKey ==
    FirstSyncOfOneEvent =>
        /\ OneDefaultFragmentOneEntry
        /\ call.out.newLiveKey = nextKey(KeyOf(EventEntries[1]))

\* C11 (amended): the entry's key is the position after the default live
\* key, and newLiveKey is that entry's key itself; between sync cycles
\* lastLiveKey is the key of the most recently written event.
C11_FirstSyncNewLiveKeyIsEntryKey ==
    /\ FirstSyncOfOneEvent =>
          /\ OneDefaultFragmentOneEntry
          /\ KeyOf(EventEntries[1]) = nextKey(defaultLiveKey)
          /\ call.out.newLiveKey = KeyOf(EventEntries[1])
    /\ pc = "idle" /\ store.events # <<>> =>
          lastLiveKey = KeyOf(store.events[Len(store.events)])

\* the first sync of event a has returned the key of a
C11_Witness ==
    /\ FirstSyncOfOneEvent
    /\ OneDefaultFragmentOneEntry
    /\ call.out.newLiveKey = EventKey(DefaultFragmentId, DefaultEventIndex + 1)

\* ----------------------------------------------------------------- C16
\* the response of the call has no timeline, no events list, or an empty one
NoTimelineEvents == ~HasEventList \/ SentEvents = <<>>

\* C16 (as claimed): writeSync with an absent or empty timeline event list
\* creates and updates no fragment, registers nothing with the comparer,
\* emits no boundary entry, and returns empty entries and a newLiveKey equal
\* to the writer's lastLiveKey, limited or not, synced before or not.
C16_NoTimelineEventsNoFragment ==
    InCall /\ NoTimelineEvents =>
        /\ ~call.out.threw
        /\ Txn.fragments = store.fragments
        /\ \A i \in 1..Len(Txn.log) :
              Txn.log[i] \notin {"timelineFragments.add", "timelineFragments.update"}
        /\ comparer = call.cmpBefore
        /\ call.out.entries = <<>>
        /\ call.out.newLiveKey = call.keyBefore

\* ----------------------------------------------------------------- C17
\* the timeline the call writes: the sent one, or on a rejoin what the
\* overlap handling made of it
WrittenTimeline == call.out.timeline
\* the call has a prior key and writes a timeline that is not limited and
\* has at least one event
AppendsToLiveFragment ==
    /\ InCall /\ call.keyBefore # NullKey
    /\ WrittenTimeline.present /\ WrittenTimeline.hasEvents
    /\ WrittenTimeline.events # <<>>
    /\ ~WrittenTimeline.limited
NoFragmentOperation ==
    \A i \in 1..Len(Txn.log) :
        Txn.log[i] \notin {"timelineFragments.add", "timelineFragments.update"}

SealedByCall(before, after) ==
    /\ before.nextId = NullId
    /\ before.id = call.keyBefore.fragmentId
    /\ after.nextId # NullId
    /\ \E f \in CreatedFragments : f.id = after.nextId
    /\ after = [before EXCEPT !.nextId = after.nextId]

C20_ComparerMatchesCommittedStorage ==
    pc = "idle" => comparer = comparerOf(store)

\* ----------------------------------------------------------------- C14
\* the events of the state section of the call, in order
StateSectionEvents ==
    IF call.roomResponse.state.hasEvents THEN call.roomResponse.state.events ELSE <<>>

RECURSIVE ProfileAfter(_, _, _)
\* the display name of userId after the member events among ids, profile
\* being the one before them
ProfileAfter(ids, userId, profile) ==
    IF ids = <<>> THEN profile
    ELSE LET event == EventOf(ids[Len(ids)])
         IN IF event.type = MEMBER_EVENT_TYPE /\ event.state_key = userId
            THEN event.displayName
            ELSE ProfileAfter(SubSeq(ids, 1, Len(ids) - 1), userId, profile)

\* the display name the k-th event written by the call is to carry: that of
\* its sender before the event, whatever the event and the events after it say
ProfileBefore(k) ==
    LET sender == EventOf(WrittenIds[k]).sender
        profile == ProfileAfter(StateSectionEvents \o SubSeq(WrittenIds, 1, k - 1),
                                sender, store.members[sender])
    IN IF profile = "null" THEN "undefined" ELSE profile

ProcessedIds == StateSectionEvents \o WrittenIds
\* the j-th processed event is a member event of userId that changes the
\* profile the events before it left
ProducesChange(j, userId) ==
    LET event == EventOf(ProcessedIds[j])
    IN /\ event.type = MEMBER_EVENT_TYPE
       /\ event.state_key = userId
       /\ ProfileAfter(SubSeq(ProcessedIds, 1, j - 1), userId, store.members[userId])
              # event.displayName
\* the last change the call produced for userId
LastChange(userId) ==
    LET producing == {j \in 1..Len(ProcessedIds) : ProducesChange(j, userId)}
    IN IF producing = {} THEN NoChange
       ELSE ProcessedIds[CHOOSE j \in producing : \A other \in producing : other <= j]

\* C15: the memberChanges map writeSync returns holds for each userId the
\* last change produced in processing order, state-section member events
\* first, then timeline member events in deduplicated order; a timeline
\* change replaces a state-section change of the same user.
C15_LastMemberChangeWins ==
    Returned =>
        /\ DOMAIN call.out.memberChanges = Users
        /\ \A userId \in Users : call.out.memberChanges[userId] = LastChange(userId)

\* a state-section member event and a timeline member event of the same user
\* both produce a change, and the map holds the one of the timeline
C15_Witness ==
    /\ Returned
    /\ StateSectionEvents = <<"s", "t">>
    /\ WrittenIds = <<"b">>
    /\ ProducesChange(1, "u1") /\ ProducesChange(3, "u1")
    /\ call.out.memberChanges["u1"] = "b"

\* ----------------------------------------------------------------- C18
\* the store operation that writes a state-section event
StateSectionOperation(id) ==
    IF EventOf(id).type = MEMBER_EVENT_TYPE THEN "memberWriter.write" ELSE "roomState.set"
\* the number of reads the rejoin-overlap resolution of the call makes
RejoinReads == IF call.isRejoin /\ call.keyBefore # NullKey THEN 1 ELSE 0

\* C18: in every writeSync call the rejoin-overlap resolution, which only
\* reads, comes before any storage write; then every state-section event is
\* written, member events through the member writer and others into room
\* state, before any fragment is read, created or replaced and before any
\* timeline event is inserted.
C18_RejoinThenStateThenTimeline ==
    InCall =>
        LET operations == Txn.log
            r == RejoinReads
            k == Len(StateSectionEvents)
        IN /\ Len(operations) >= r
           /\ Len(operations) > r => Len(operations) >= r + k
           /\ \A i \in 1..Len(operations) :
                 /\ i <= r <=> operations[i] = "timelineEvents.lastEvents"
                 /\ (r < i /\ i <= r + k) =>
                       operations[i] = StateSectionOperation(StateSectionEvents[i - r])
                 /\ operations[i] \in {"timelineFragments.liveFragment",
                                       "timelineFragments.get", "timelineFragments.add",
                                       "timelineFragments.update", "timelineEvents.insert",
                                       "memberWriter.lookupMember"}
                       => i > r + k

\* a rejoin without overlap that carries a state section: one read, the two
\* state writes, then the fragment is replaced and the event inserted
C18_Witness ==
    /\ InCall /\ call.isRejoin
    /\ StateSectionEvents = <<"s", "t">>
    /\ Len(Txn.log) >= 7
    /\ SubSeq(Txn.log, 1, 7) = <<"timelineEvents.lastEvents", "memberWriter.write",
                                  "roomState.set", "timelineFragments.get",
                                  "timelineFragments.update", "timelineFragments.add",
                                  "memberWriter.lookupMember">>
    /\ Txn.log[Len(Txn.log)] = "timelineEvents.insert"

\* ----------------------------------------------------------------- C12
\* the key load is to leave: that of the last event of the live fragment,
\* the default event index when that fragment has no events, none when the
\* room has no live fragment
ExpectedLoadKey ==
    LET open == {f \in store.fragments : f.nextId = NullId}
    IN IF open = {} THEN NullKey
       ELSE LET live == CHOOSE f \in open : \A g \in open : g.id <= f.id
                indices == {store.events[i].eventIndex :
                               i \in {j \in 1..Len(store.events) :
                                         store.events[j].fragmentId = live.id}}
            IN IF indices = {} THEN EventKey(live.id, DefaultEventIndex)
               ELSE EventKey(live.id,
                             CHOOSE x \in indices : \A y \in indices : y <= x)

\* C12: load writes nothing to storage, creating no fragment even when the
\* room has no live fragment, and every call of it on the unchanged store
\* leaves the same lastLiveKey: (live fragment id, index of its last stored
\* event), (live fragment id, default index) when it has no events, none
\* when there is no live fragment.
C12_LoadReadsOnlyAndIsIdempotent ==
    [][/\ store' = store
       /\ pc' = "idle" => lastLiveKey' = ExpectedLoadKey
       /\ pc = "idle" /\ pc' = "idle" => lastLiveKey' = lastLiveKey]_vars

\* loaded: a room whose live fragment has no events, after a fragment that
\* has some
C12_Witness ==
    /\ pc = "idle"
    /\ store.events # <<>>
    /\ \E f \in store.fragments :
          /\ f.nextId = NullId /\ f.previousId # NullId
          /\ lastEvents(store, f.id) = <<>>
          /\ lastLiveKey = EventKey(f.id, DefaultEventIndex)

\* ----------------------------------------------------------------- C13
\* the call has to replace the live fragment, and storage holds no fragment
\* with the id of the writer's key
ReplacesMissingFragment ==
    /\ InCall /\ call.keyBefore # NullKey
    /\ WrittenTimeline.present /\ WrittenTimeline.hasEvents
    /\ WrittenTimeline.events # <<>>
    /\ WrittenTimeline.limited
    /\ getFragment(store, call.keyBefore.fragmentId) = <<>>

\* C13: when writeSync has to replace the live fragment (prior key, limited
\* timeline with events) and storage holds no fragment with the id of
\* lastLiveKey, it fails before it adds or updates a fragment, inserts a
\* timeline event or registers anything with the comparer; it returns no
\* result and lastLiveKey is unchanged.
C13_MissingLiveFragmentFailsBeforeWriting ==
    ReplacesMissingFragment =>
        /\ call.out.threw
        /\ NoFragmentOperation
        /\ \A i \in 1..Len(Txn.log) : Txn.log[i] # "timelineEvents.insert"
        /\ Txn.fragments = store.fragments
        /\ Txn.events = store.events
        /\ comparer = call.cmpBefore
        /\ call.out.entries = <<>>
        /\ lastLiveKey = call.keyBefore

\* a limited sync of one event, after the stored room was lost, has failed
C13_Witness ==
    /\ ReplacesMissingFragment /\ ~call.isRejoin
    /\ store.fragments = {}
    /\ call.out.threw
    /\ Txn.log[Len(Txn.log)] = "timelineFragments.get"

\* ----------------------------------------------------------------- C21
\* the key a writer constructed now would get from load on the committed store
FreshlyLoadedKey == load(store, NullKey).lastLiveKey

\* C21: between sync cycles, after any sequence of committed writeSync calls
\* each followed by afterSync(newLiveKey), a fresh writer that runs load on
\* the committed store gets the lastLiveKey the running writer holds; both
\* have none when nothing was ever written.
C21_LoadAgreesWithAfterSync ==
    pc = "idle" =>
        /\ lastLiveKey = FreshlyLoadedKey
        /\ store.events = <<>> => lastLiveKey = NullKey

\* two syncs were committed, the second into a new fragment, and the running
\* writer holds the key load finds
C21_Witness ==
    /\ pc = "idle" /\ nSyncs = 2
    /\ Len(store.events) >= 2
    /\ lastLiveKey # NullKey
    /\ lastLiveKey.fragmentId # DefaultFragmentId
    /\ lastLiveKey = KeyOf(store.events[Len(store.events)])
    /\ lastLiveKey = FreshlyLoadedKey

\* ----------------------------------------------------------------- C22
RECURSIVE ReachableByNextId(_, _, _)
\* the ids of the fragments met from fragment id on by following nextId, in
\* at most steps steps
ReachableByNextId(fragments, id, steps) ==
    LET here == {f \in fragments : f.id = id}
    IN IF here = {} \/ steps = 0 THEN {}
       ELSE {id} \cup UNION {ReachableByNextId(fragments, f.nextId, steps - 1) :
                                f \in here}

UniqueFragmentIds(fragments) ==
    \A f, g \in fragments : f.id = g.id => f = g
ConsistentLinks(fragments) ==
    \A f, g \in fragments : f.nextId = g.id <=> g.previousId = f.id
\* exactly one fragment has no previous one, and every fragment is reached
\* from it by following nextId
OneChain(fragments) ==
    \E first \in fragments :
        /\ {f \in fragments : f.previousId = NullId} = {first}
        /\ ReachableByNextId(fragments, first.id, Cardinality(fragments))
              = {f.id : f \in fragments}

\* C22 (as claimed): in every committed state the room's fragments have
\* unique ids and consistent links (F.nextId = G.id exactly when
\* G.previousId = F.id), exactly one fragment has previousId = null and every
\* fragment is reachable from it by following nextId.
C22_FragmentsFormOneChain ==
    pc = "committed" =>
        /\ UniqueFragmentIds(store.fragments)
        /\ ConsistentLinks(store.fragments)
        /\ OneChain(store.fragments)

\* C22 (amended): the same for a room that has a fragment; a room in which
\* no timeline event was written yet, whatever writeSync calls were
\* committed, has no fragment at all.
C22_FragmentsFormOneChainIfAny ==
    /\ UniqueFragmentIds(store.fragments)
    /\ ConsistentLinks(store.fragments)
    /\ store.fragments # {} => OneChain(store.fragments)
    /\ store.fragments = {} <=> store.events = <<>>

\* a committed chain of two fragments
C22_Witness ==
    /\ pc = "idle"
    /\ Cardinality(store.fragments) = 2
    /\ \E f, g \in store.fragments :
          /\ f.previousId = NullId /\ f.nextId = g.id
          /\ g.previousId = f.id /\ g.nextId = NullId
    /\ OneChain(store.fragments)

\* ----------------------------------------------------------------- C23
\* every stored entry is in a fragment that is in storage
EventsInStoredFragments(txn) ==
    \A i \in 1..Len(txn.events) :
        \E f \in txn.fragments : f.id = txn.events[i].fragmentId
\* the positions in storage of the entries of fragment fragmentId
EntriesOf(txn, fragmentId) ==
    {i \in 1..Len(txn.events) : txn.events[i].fragmentId = fragmentId}
\* the entries of each fragment have the indices default + 1, default + 2,
\* ..., each once
ConsecutiveIndices(txn) ==
    \A f \in txn.fragments :
        LET entries == EntriesOf(txn, f.id)
        IN /\ \A i, j \in entries :
                 txn.events[i].eventIndex = txn.events[j].eventIndex => i = j
           /\ {txn.events[i].eventIndex : i \in entries}
                 = (DefaultEventIndex + 1)..(DefaultEventIndex + Cardinality(entries))

\* C23: in every committed state each stored timeline entry's fragmentId
\* names a fragment in storage, all events written by one writeSync call are
\* in the fragment that is live at the end of that call, and within each
\* fragment the stored event indices are consecutive from the default event
\* index + 1 on, without gap or repeat.
C23_EventsFillFragmentsConsecutively ==
    /\ EventsInStoredFragments(store)
    /\ ConsecutiveIndices(store)
    /\ Returned =>
          /\ EventsInStoredFragments(Txn)
          /\ ConsecutiveIndices(Txn)
          /\ \A k \in 1..Len(WrittenEvents) :
                /\ Len(liveFragment(Txn)) = 1
                /\ WrittenEvents[k].fragmentId = liveFragment(Txn)[1].id

\* a call that wrote two events into a new fragment, after two events in the
\* first one
C23_Witness ==
    /\ Returned
    /\ Len(store.events) = 2 /\ Len(WrittenEvents) = 2
    /\ Cardinality(Txn.fragments) = 2
    /\ \A k \in 1..2 :
          /\ store.events[k].fragmentId = DefaultFragmentId
          /\ WrittenEvents[k].fragmentId = DefaultFragmentId + 1
          /\ WrittenEvents[k].eventIndex = DefaultEventIndex + k

====
